---- MODULE Spec2Model ----
(***************************************************************************)
(* A model of the unified-diff patch engine of agentic_system/udiff.py.    *)
(*                                                                         *)
(* Text is a sequence of one-character strings, so that substring search,  *)
(* counting, replacing, whitespace collapsing and the similarity ratio of  *)
(* difflib.SequenceMatcher are computed character by character, as the     *)
(* Python code computes them.  A hunk is a sequence of lines, each a text  *)
(* whose first character is the tag (" ", "-", "+", "@").                  *)
(***************************************************************************)
EXTENDS Integers, Sequences, FiniteSets, TLC

NL == "\n"
SP == " "

----------------------------------------------------------------------------
(* Python str primitives                                                   *)

Min2(a, b) == IF a <= b THEN a ELSE b
Max2(a, b) == IF a >= b THEN a ELSE b
SetMin(S) == CHOOSE x \in S : \A y \in S : x <= y

\* s[i:j] with 0 <= i, clamped like a Python slice
Slice(s, i, j) == SubSeq(s, i + 1, Min2(j, Len(s)))
Take(s, n) == SubSeq(s, 1, Min2(n, Len(s)))
Drop(s, n) == SubSeq(s, n + 1, Len(s))

IsSpace(c) == c \in {" ", "\n", "\r", "\t"}

StartsWith(s, p) == Len(p) <= Len(s) /\ SubSeq(s, 1, Len(p)) = p

\* str.find(sub, from): 0-based index of the first occurrence, -1 if none
Find(s, sub, from) ==
    LET at == {i \in from..(Len(s) - Len(sub)) : SubSeq(s, i + 1, i + Len(sub)) = sub}
    IN IF at = {} THEN -1 ELSE SetMin(at)

\* sub in s
Contains(s, sub) == Find(s, sub, 0) # -1

\* str.count(sub): occurrences counted left to right without overlap
RECURSIVE CountFrom(_, _, _)
CountFrom(s, sub, from) ==
    LET i == Find(s, sub, from)
    IN IF i = -1 THEN 0
       ELSE IF sub = <<>> THEN Len(s) - from + 1
       ELSE 1 + CountFrom(s, sub, i + Len(sub))
Count(s, sub) == CountFrom(s, sub, 0)

\* str.replace(old, new) for a non-empty old: every non-overlapping occurrence
RECURSIVE ReplaceFrom(_, _, _, _)
ReplaceFrom(s, old, new, from) ==
    LET i == Find(s, old, from)
    IN IF i = -1 \/ old = <<>> THEN Drop(s, from)
       ELSE Slice(s, from, i) \o new \o ReplaceFrom(s, old, new, i + Len(old))
Replace(s, old, new) == ReplaceFrom(s, old, new, 0)

\* str.strip(), str.lstrip(' '), str.rstrip("\r\n")
RECURSIVE LStrip(_)
LStrip(s) == IF s # <<>> /\ IsSpace(Head(s)) THEN LStrip(Tail(s)) ELSE s
RECURSIVE RStrip(_)
RStrip(s) == IF s # <<>> /\ IsSpace(s[Len(s)]) THEN RStrip(Take(s, Len(s) - 1)) ELSE s
Strip(s) == RStrip(LStrip(s))
RECURSIVE LStripSpaces(_)
LStripSpaces(s) == IF s # <<>> /\ Head(s) = SP THEN LStripSpaces(Tail(s)) ELSE s
RECURSIVE RStripNewlines(_)
RStripNewlines(s) ==
    IF s # <<>> /\ s[Len(s)] \in {"\n", "\r"} THEN RStripNewlines(Take(s, Len(s) - 1)) ELSE s

\* str.splitlines() and str.splitlines(keepends=True); the texts of the model
\* are LF-terminated once normalize_line_endings has run
RECURSIVE SplitLinesKeep(_)
SplitLinesKeep(s) ==
    IF s = <<>> THEN <<>>
    ELSE LET i == Find(s, <<NL>>, 0)
         IN IF i = -1 THEN <<s>>
            ELSE <<Take(s, i + 1)>> \o SplitLinesKeep(Drop(s, i + 1))
SplitLines(s) ==
    LET k == SplitLinesKeep(s)
    IN [n \in 1..Len(k) |->
            IF k[n][Len(k[n])] = NL THEN Take(k[n], Len(k[n]) - 1) ELSE k[n]]

\* "".join(lines) and "\n".join(lines)
RECURSIVE Join(_)
Join(lines) == IF lines = <<>> THEN <<>> ELSE Head(lines) \o Join(Tail(lines))
RECURSIVE JoinNL(_)
JoinNL(lines) ==
    IF lines = <<>> THEN <<>>
    ELSE IF Len(lines) = 1 THEN Head(lines)
    ELSE Head(lines) \o <<NL>> \o JoinNL(Tail(lines))

\* re.sub(r'\s+', ' ', s)
RECURSIVE CollapseWhitespace(_)
CollapseWhitespace(s) ==
    IF s = <<>> THEN <<>>
    ELSE IF IsSpace(Head(s)) THEN <<SP>> \o CollapseWhitespace(LStrip(s))
    ELSE <<Head(s)>> \o CollapseWhitespace(Tail(s))

Spaces(n) == [i \in 1..n |-> SP]

Range(f) == {f[x] : x \in DOMAIN f}

----------------------------------------------------------------------------
(* difflib.SequenceMatcher without junk (autojunk only acts on sequences   *)
(* of 200 elements or more).  Positions are 0-based, ranges half-open.     *)

\* length of the common run of a from i and b from j, inside [.., ahi) x [.., bhi)
RECURSIVE RunLen(_, _, _, _, _, _)
RunLen(a, i, ahi, b, j, bhi) ==
    IF i < ahi /\ j < bhi /\ a[i + 1] = b[j + 1]
    THEN 1 + RunLen(a, i + 1, ahi, b, j + 1, bhi)
    ELSE 0

\* find_longest_match: the longest block, earliest in a, then earliest in b
find_longest_match(a, alo, ahi, b, blo, bhi) ==
    LET pairs == {p \in (alo..(ahi - 1)) \X (blo..(bhi - 1)) : a[p[1] + 1] = b[p[2] + 1]}
    IN IF pairs = {} THEN <<alo, blo, 0>>
       ELSE LET runs == {<<RunLen(a, p[1], ahi, b, p[2], bhi), p[1], p[2]>> : p \in pairs}
                bestsize == CHOOSE k \in {r[1] : r \in runs} : \A r \in runs : r[1] <= k
                besti == SetMin({r[2] : r \in {x \in runs : x[1] = bestsize}})
                bestj == SetMin({r[3] : r \in {x \in runs : x[1] = bestsize /\ x[2] = besti}})
            IN <<besti, bestj, bestsize>>

\* get_matching_blocks: the blocks <<i, j, size>> in increasing order
RECURSIVE get_matching_blocks(_, _, _, _, _, _)
get_matching_blocks(a, alo, ahi, b, blo, bhi) ==
    LET m == find_longest_match(a, alo, ahi, b, blo, bhi)
    IN IF m[3] = 0 THEN <<>>
       ELSE (IF alo < m[1] /\ blo < m[2]
             THEN get_matching_blocks(a, alo, m[1], b, blo, m[2]) ELSE <<>>)
            \o <<m>> \o
            (IF m[1] + m[3] < ahi /\ m[2] + m[3] < bhi
             THEN get_matching_blocks(a, m[1] + m[3], ahi, b, m[2] + m[3], bhi) ELSE <<>>)

RECURSIVE SumSizes(_)
SumSizes(blocks) == IF blocks = <<>> THEN 0 ELSE Head(blocks)[3] + SumSizes(Tail(blocks))

\* ratio() = 2.0 * matches / length, kept as the pair <<2 * matches, length>>;
\* a length of 0 gives the ratio 1.0
ratio(a, b) ==
    IF Len(a) + Len(b) = 0 THEN <<1, 1>>
    ELSE <<2 * SumSizes(get_matching_blocks(a, 0, Len(a), b, 0, Len(b))), Len(a) + Len(b)>>

RatioGT(r, s) == r[1] * s[2] > s[1] * r[2]
\* r >= num / den
RatioGE(r, num, den) == r[1] * den >= num * r[2]

----------------------------------------------------------------------------
(* udiff.py: line-level helpers                                            *)

\* normalize_line_endings: "\r\n" and a lone "\r" both become "\n"
RECURSIVE normalize_line_endings(_)
normalize_line_endings(text) ==
    IF text = <<>> THEN <<>>
    ELSE IF Head(text) = "\r"
         THEN <<NL>> \o normalize_line_endings(
                  IF Len(text) > 1 /\ text[2] = NL THEN Drop(text, 2) ELSE Tail(text))
    ELSE <<Head(text)>> \o normalize_line_endings(Tail(text))

\* normalize_indentation with `remainder in [1, 2]` rounding down
normalize_indentation_half_down(line) ==
    IF line = <<>> \/ Strip(line) = <<>> THEN line
    ELSE LET leading_spaces == Len(line) - Len(LStripSpaces(line))
             remainder == leading_spaces % 4
             normalized_spaces ==
                 IF remainder \in {1, 2} THEN (leading_spaces \div 4) * 4
                 ELSE ((leading_spaces \div 4) + 1) * 4
         IN IF leading_spaces = 0 \/ remainder = 0 THEN line
            ELSE Spaces(normalized_spaces) \o LStripSpaces(line)

\* normalize_indentation rounding up by one space, right for a remainder
\* of 3 only
normalize_indentation_one_more(line) ==
    IF line = <<>> \/ Strip(line) = <<>> THEN line
    ELSE LET leading_spaces == Len(line) - Len(LStripSpaces(line))
             remainder == leading_spaces % 4
             normalized_spaces ==
                 IF remainder = 1 THEN (leading_spaces \div 4) * 4
                 ELSE leading_spaces + 1
         IN IF leading_spaces = 0 \/ remainder = 0 THEN line
            ELSE Spaces(normalized_spaces) \o LStripSpaces(line)

normalize_indentation(line) ==
    IF line = <<>> \/ Strip(line) = <<>> THEN line
    ELSE LET leading_spaces == Len(line) - Len(LStripSpaces(line))
             remainder == leading_spaces % 4
             normalized_spaces ==
                 IF remainder = 1 THEN (leading_spaces \div 4) * 4
                 ELSE ((leading_spaces \div 4) + 1) * 4
         IN IF leading_spaces = 0 \/ remainder = 0 THEN line
            ELSE Spaces(normalized_spaces) \o LStripSpaces(line)

\* hunk_to_before_after(hunk, lines=True): <<before, after>> as lists of lines
RECURSIVE hunk_to_before_after_lines(_)
hunk_to_before_after_lines(hunk) ==
    IF hunk = <<>> THEN << <<>>, <<>> >>
    ELSE LET line == Head(hunk)
             tail == hunk_to_before_after_lines(Tail(hunk))
         IN IF Len(line) < 1 THEN tail
            ELSE LET op == line[1]
                     rest == normalize_indentation(Tail(line))
                 IN CASE op = " " -> << <<rest>> \o tail[1], <<rest>> \o tail[2] >>
                      [] op = "-" -> << <<rest>> \o tail[1], tail[2] >>
                      [] op = "+" -> << tail[1], <<rest>> \o tail[2] >>
                      [] OTHER -> tail

\* hunk_to_before_after(hunk): <<before_text, after_text>>
hunk_to_before_after(hunk) ==
    LET ba == hunk_to_before_after_lines(hunk)
    IN <<Join(ba[1]), Join(ba[2])>>

----------------------------------------------------------------------------
(* udiff.py: normalize_hunk                                                *)

\* udiff.py:215-216: a whitespace-only line is replaced by one of its own
\* characters, line[-k] with k the number of trailing "\r"/"\n" characters
\* (line[0] when k = 0); the expression is undefined (IndexError) on ""
CleanLineFails(line) == line = <<>>
CleanLine(line) ==
    IF Strip(line) # <<>> THEN line
    ELSE LET k == Len(line) - Len(RStripNewlines(line))
         IN <<line[IF k = 0 THEN 1 ELSE Len(line) - k + 1]>>

Tagged(op, lines) == [n \in 1..Len(lines) |-> <<op>> \o lines[n]]

\* The body of difflib.unified_diff after its three header lines, for a
\* context n that covers both lists: per opcode, the "-" lines of a, the "+"
\* lines of b, then the " " lines of the matching block.
RECURSIVE DiffFrom(_, _, _, _, _)
DiffFrom(a, b, i, j, blocks) ==
    IF blocks = <<>> THEN <<>>
    ELSE LET m == Head(blocks)
         IN Tagged("-", Slice(a, i, m[1])) \o Tagged("+", Slice(b, j, m[2]))
            \o Tagged(" ", Slice(a, m[1], m[1] + m[3]))
            \o DiffFrom(a, b, m[1] + m[3], m[2] + m[3], Tail(blocks))

\* list(difflib.unified_diff(before, after, n=max(len(before), len(after))))[3:]
\* get_grouped_opcodes yields no group when the only opcode is "equal"
unified_diff_body(a, b) ==
    IF a = b THEN <<>>
    ELSE DiffFrom(a, b, 0, 0,
             get_matching_blocks(a, 0, Len(a), b, 0, Len(b)) \o <<<<Len(a), Len(b), 0>>>>)

\* normalize_hunk: [ok |-> FALSE] stands for the IndexError of udiff.py:215-216
normalize_hunk(hunk) ==
    LET ba == hunk_to_before_after_lines(hunk)
        fails == \E side \in {1, 2} : \E n \in 1..Len(ba[side]) : CleanLineFails(ba[side][n])
        before == [n \in 1..Len(ba[1]) |-> normalize_indentation(CleanLine(ba[1][n]))]
        after == [n \in 1..Len(ba[2]) |-> normalize_indentation(CleanLine(ba[2][n]))]
    IN IF fails THEN [ok |-> FALSE, hunk |-> <<>>]
       ELSE [ok |-> TRUE, hunk |-> unified_diff_body(before, after)]

----------------------------------------------------------------------------
(* udiff.py: the match strategies                                          *)

NoText == [some |-> FALSE, val |-> <<>>]
SomeText(t) == [some |-> TRUE, val |-> t]

\* What a call gives back: a document, None, or SearchTextNotUnique raised.
\* via names the return statement that produced it.
ReturnedNone == [kind |-> "None", doc |-> <<>>, via |-> "none"]
RaisedNotUnique == [kind |-> "SearchTextNotUnique", doc |-> <<>>, via |-> "none"]
Returned(doc, via) == [kind |-> "doc", doc |-> doc, via |-> via]
\* `if result:` - a returned document that is not the empty string
Truthy(r) == r.kind = "doc" /\ r.doc # <<>>

RECURSIVE BestWindow(_, _, _, _, _, _)
BestWindow(content_lines, n, search_block, i, best_match, best_ratio) ==
    IF i > Len(content_lines) - n THEN <<best_match, best_ratio>>
    ELSE LET content_block == JoinNL(SubSeq(content_lines, i + 1, i + n))
             r == ratio(content_block, search_block)
         IN IF RatioGT(r, best_ratio)
            THEN BestWindow(content_lines, n, search_block, i + 1, SomeText(content_block), r)
            ELSE BestWindow(content_lines, n, search_block, i + 1, best_match, best_ratio)

\* fuzzy_match_block(content, search_block, threshold=0.8): <<match, ratio>>
\* udiff.py:249-252, on the pair best = <<best_match, best_ratio>> of the loop
BestAbove(best) == IF RatioGE(best[2], 8, 10) THEN best ELSE <<NoText, best[2]>>

fuzzy_match_block(content, search_block) ==
    LET content_lines == SplitLines(content)
        search_lines == SplitLines(search_block)
    IN IF search_lines = <<>> THEN <<NoText, <<0, 1>>>>
       ELSE BestAbove(BestWindow(content_lines, Len(search_lines), search_block, 0,
                                 NoText, <<0, 1>>))

\* udiff.py:285-292, the fuzzy strategy, on the pair fm = <<matched_text, ratio>>
\* that fuzzy_match_block returned
FuzzyStrategy(content, after_text, fm) ==
    IF fm[1].some /\ fm[1].val # <<>> /\ RatioGE(fm[2], 9, 10)
    THEN IF Count(content, fm[1].val) > 1 THEN RaisedNotUnique
         ELSE Returned(Replace(content, fm[1].val, after_text), "fuzzy")
    ELSE ReturnedNone

\* udiff.py:268-283, the whitespace-insensitive strategy: the replacement at
\* start_idx, the position of the first line of before_text, or -1 for none
WhitespaceMatch(content, before_text, first_line, start_idx) ==
    IF /\ Contains(CollapseWhitespace(content), CollapseWhitespace(before_text))
       /\ first_line # <<>>
       /\ start_idx >= 0
       /\ start_idx + Len(before_text) <= Len(content)
       /\ CollapseWhitespace(Slice(content, start_idx, start_idx + Len(before_text)))
              = CollapseWhitespace(before_text)
    THEN start_idx
    ELSE -1

FirstLine(before_lines) == IF before_lines # <<>> THEN before_lines[1] ELSE <<>>

\* udiff.py:259-292, on the normalized content and the two texts of the hunk
ApplyTexts(content, before_text, after_text, ws) ==
    IF before_text = <<>> THEN ReturnedNone
    ELSE IF Contains(content, before_text)
    THEN IF Count(content, before_text) > 1 THEN RaisedNotUnique
         ELSE Returned(Replace(content, before_text, after_text), "exact")
    ELSE IF ws >= 0
    THEN Returned(Take(content, ws) \o after_text \o Drop(content, ws + Len(before_text)),
                  "whitespace")
    ELSE FuzzyStrategy(content, after_text, fuzzy_match_block(content, before_text))

ApplyBeforeAfter(content, before_text, after_text, first_line) ==
    ApplyTexts(content, before_text, after_text,
               WhitespaceMatch(content, before_text, first_line, Find(content, first_line, 0)))

ApplyNormalized(content, ba) ==
    ApplyBeforeAfter(content, ba[1], ba[2], FirstLine(SplitLines(ba[1])))

directly_apply_hunk(content0, hunk) ==
    ApplyNormalized(normalize_line_endings(content0), hunk_to_before_after(hunk))

----------------------------------------------------------------------------
(* udiff.py: partial application                                           *)

RECURSIVE SectionsFrom(_, _, _, _)
SectionsFrom(hunk, current_type, current_section, sections) ==
    LET flushed == IF current_section # <<>>
                   THEN Append(sections, <<current_type, current_section>>)
                   ELSE sections
    IN IF hunk = <<>> THEN flushed
       ELSE LET line == Head(hunk)
            IN IF Len(line) < 1
               THEN SectionsFrom(Tail(hunk), current_type, current_section, sections)
               ELSE IF line[1] # current_type
               THEN SectionsFrom(Tail(hunk), line[1], <<line>>, flushed)
               ELSE SectionsFrom(Tail(hunk), current_type, Append(current_section, line),
                                 sections)

\* extract_context_sections: runs of lines with the same first character,
\* as pairs <<type, lines>>
extract_context_sections(hunk) == SectionsFrom(hunk, "None", <<>>, <<>>)

(* The loop state of apply_partial_hunk: content_result and all_applied are *)
(* the code's locals.  The other fields record what happened, for the       *)
(* properties: raised - a SearchTextNotUnique was raised so far; late - an  *)
(* attempt made after that changed content_result; finds, hits - the        *)
(* number of attempts of the current section that returned a document, and  *)
(* of those that were applied (the document is not empty); matched,         *)
(* applied - the finds and the hits of the sections done.                   *)

\* udiff.py:354-364, for f_ctx_amount in range(f, -1, -1); FollowingStep is
\* the rest of the loop once the attempt with f lines has given inner_result
RECURSIVE FollowingLoop(_, _, _, _, _)
FollowingStep(st, p_ctx, section, following_ctx, f, inner_result) ==
    IF inner_result.kind = "SearchTextNotUnique"
    THEN FollowingLoop([st EXCEPT !.raised = TRUE], p_ctx, section, following_ctx, f - 1)
    ELSE IF Truthy(inner_result)
    THEN [st EXCEPT !.content_result = inner_result.doc,
                    !.finds = @ + 1,
                    !.hits = @ + 1,
                    !.late = @ \/ st.raised]
    ELSE FollowingLoop([st EXCEPT !.finds = @ + IF inner_result.kind = "doc" THEN 1 ELSE 0],
                       p_ctx, section, following_ctx, f - 1)

FollowingLoop(st, p_ctx, section, following_ctx, f) ==
    IF f < 0 THEN st
    ELSE FollowingStep(st, p_ctx, section, following_ctx, f,
             directly_apply_hunk(st.content_result,
                 p_ctx \o section \o (IF f > 0 THEN Take(following_ctx, f) ELSE <<>>)))

\* udiff.py:351-367, for p_ctx_amount in range(p, -1, -1); PrecedingStep is
\* the test of udiff.py:366-367 on the state st2 the inner loop left
RECURSIVE PrecedingLoop(_, _, _, _, _, _)
PrecedingStep(st2, content, preceding_ctx, section, following_ctx, p) ==
    IF st2.content_result # content THEN st2
    ELSE PrecedingLoop(st2, content, preceding_ctx, section, following_ctx, p - 1)

PrecedingLoop(st, content, preceding_ctx, section, following_ctx, p) ==
    IF p < 0 THEN st
    ELSE PrecedingStep(
             FollowingLoop(st,
                 IF p > 0
                 THEN SubSeq(preceding_ctx, Len(preceding_ctx) - p + 1, Len(preceding_ctx))
                 ELSE <<>>,
                 section, following_ctx, Len(following_ctx)),
             content, preceding_ctx, section, following_ctx, p)

\* udiff.py:341-369, once the whole section with all its context has given result
TrySection(st, content, preceding_ctx, section, following_ctx, result) ==
    IF result.kind = "SearchTextNotUnique"
    THEN [st EXCEPT !.hits = 0, !.finds = 0, !.all_applied = FALSE, !.raised = TRUE]
    ELSE IF Truthy(result)
    THEN [st EXCEPT !.content_result = result.doc,
                    !.hits = 1,
                    !.finds = 1,
                    !.late = @ \/ st.raised]
    ELSE PrecedingLoop([st EXCEPT !.hits = 0, !.finds = IF result.kind = "doc" THEN 1 ELSE 0],
                       content, preceding_ctx, section, following_ctx, Len(preceding_ctx))

\* the section is done: its finds and hits are recorded
SectionDone(st1) ==
    [st1 EXCEPT !.applied = Append(@, st1.hits), !.matched = Append(@, st1.finds)]

\* SectionWithContext matching every section against the document
\* apply_partial_hunk was given
SectionWithContextOnOriginal(st, content, preceding_ctx, section, following_ctx) ==
    SectionDone(TrySection(st, content, preceding_ctx, section, following_ctx,
                    directly_apply_hunk(content,
                                        preceding_ctx \o section \o following_ctx)))

SectionWithContext(st, content, preceding_ctx, section, following_ctx) ==
    SectionDone(TrySection(st, content, preceding_ctx, section, following_ctx,
                    directly_apply_hunk(st.content_result,
                                        preceding_ctx \o section \o following_ctx)))

\* udiff.py:328-369, one iteration of the loop over the sections
ApplySection(st, content, sections, i) ==
    IF sections[i][1] \notin {"+", "-"} THEN st
    ELSE SectionWithContext(st, content,
             IF i > 1 /\ sections[i - 1][1] = " " THEN sections[i - 1][2] ELSE <<>>,
             sections[i][2],
             IF i < Len(sections) /\ sections[i + 1][1] = " " THEN sections[i + 1][2] ELSE <<>>)

RECURSIVE SectionLoop(_, _, _, _)
SectionLoop(st, content, sections, i) ==
    IF i > Len(sections) THEN st
    ELSE SectionLoop(ApplySection(st, content, sections, i), content, sections, i + 1)

\* apply_partial_hunk: the final loop state, with result the value returned
\* udiff.py:371, on the state st the loop over the sections left
PartialResult(content, st) ==
    [result |-> IF st.all_applied \/ st.content_result # content
                THEN Returned(st.content_result, "partial")
                ELSE ReturnedNone,
     raised |-> st.raised, late |-> st.late, matched |-> st.matched,
     applied |-> st.applied]

PartialFrom(content, hunk) ==
    PartialResult(content,
        SectionLoop([content_result |-> content, all_applied |-> TRUE,
                     raised |-> FALSE, late |-> FALSE, finds |-> 0, hits |-> 0,
                     matched |-> <<>>, applied |-> <<>>],
                    content, extract_context_sections(hunk), 1))

apply_partial_hunk(content0, hunk) == PartialFrom(normalize_line_endings(content0), hunk)

----------------------------------------------------------------------------
(* udiff.py: do_replace                                                    *)

\* udiff.py:417-424: the first window whose similarity to the before lines
\* is at least 0.8 is replaced by the after lines
RECURSIVE WindowScan(_, _, _, _)
WindowScan(content_lines, before_lines, after_lines, i) ==
    LET n == Len(before_lines)
        content_block == Join(SubSeq(content_lines, i + 1, i + n))
        similarity == ratio(Strip(content_block), Strip(Join(before_lines)))
    IN IF i > Len(content_lines) - n THEN ReturnedNone
       ELSE IF RatioGE(similarity, 8, 10)
       THEN Returned(Join(Take(content_lines, i) \o after_lines \o Drop(content_lines, i + n)),
                     "scan")
       ELSE WindowScan(content_lines, before_lines, after_lines, i + 1)

\* What do_replace gives back, and what happened on the way: touched - the
\* target was created (Path(fname).touch()); raised, late, matched, applied -
\* as in the loop state of apply_partial_hunk (nothing, if it did not run).
NoSections == [raised |-> FALSE, late |-> FALSE, matched |-> <<>>, applied |-> <<>>]
Outcome(r, via, touched, p) ==
    [kind |-> r.kind, doc |-> r.doc, via |-> IF r.kind = "doc" THEN via ELSE "none",
     touched |-> touched, raised |-> p.raised, late |-> p.late, matched |-> p.matched,
     applied |-> p.applied]

\* udiff.py:412-424, the last resort, after apply_partial_hunk gave partial
LastResort(partial, scan) ==
    Outcome(scan, "scan", FALSE,
            [raised |-> partial.raised,
             late |-> partial.late \/ (partial.raised /\ scan.kind = "doc"),
             matched |-> partial.matched, applied |-> partial.applied])

ScanLines(content, lines) ==
    IF lines[1] # <<>>
    THEN WindowScan(SplitLinesKeep(content), lines[1], lines[2], 0)
    ELSE ReturnedNone

\* udiff.py:407-424
TryPartial(content, hunk, partial) ==
    IF Truthy(partial.result)
    THEN Outcome(partial.result, "partial", FALSE, partial)
    ELSE LastResort(partial, ScanLines(content, hunk_to_before_after_lines(hunk)))

\* udiff.py:402-405, with second the result of the normalized hunk
TrySecond(content, hunk, second) ==
    IF second.kind = "SearchTextNotUnique"
    THEN Outcome(RaisedNotUnique, "none", FALSE, [NoSections EXCEPT !.raised = TRUE])
    ELSE IF Truthy(second)
    THEN Outcome(second, "normalized", FALSE, NoSections)
    ELSE TryPartial(content, hunk, apply_partial_hunk(content, hunk))

\* udiff.py:401-405, with normalized the result of normalize_hunk
TryNormalized(content, hunk, normalized) ==
    IF ~normalized.ok
    THEN Outcome(ReturnedNone, "none", FALSE, NoSections)
    ELSE IF normalized.hunk # hunk
    THEN TrySecond(content, hunk, directly_apply_hunk(content, normalized.hunk))
    ELSE TryPartial(content, hunk, apply_partial_hunk(content, hunk))

\* udiff.py:396-424, with direct the result of the first attempt
TryDirect(content, hunk, direct) ==
    IF direct.kind = "SearchTextNotUnique"
    THEN Outcome(RaisedNotUnique, "none", FALSE, [NoSections EXCEPT !.raised = TRUE])
    ELSE IF Truthy(direct)
    THEN Outcome(direct, "direct", FALSE, NoSections)
    ELSE TryNormalized(content, hunk, normalize_hunk(hunk))

\* NewFileOr without the os.path.exists test of udiff.py:390: an empty
\* before text alone makes the call a file creation
NewFileOrAnyTarget(target_exists, content, hunk, ba) ==
    IF Strip(ba[1]) = <<>>
    THEN Outcome(Returned(ba[2], "create"), "create", ~target_exists, NoSections)
    ELSE TryDirect(content, hunk, directly_apply_hunk(content, hunk))

\* udiff.py:389-392, on the texts of the hunk with its indentation normalized
NewFileOr(target_exists, content, hunk, ba) ==
    IF ~target_exists /\ Strip(ba[1]) = <<>>
    THEN Outcome(Returned(ba[2], "create"), "create", TRUE, NoSections)
    ELSE TryDirect(content, hunk, directly_apply_hunk(content, hunk))

do_replace(target_exists, content0, hunk) ==
    NewFileOr(target_exists, normalize_line_endings(content0), hunk,
        hunk_to_before_after(
            [n \in 1..Len(hunk) |->
                IF Len(hunk[n]) > 1 /\ hunk[n][1] \in {" ", "+", "-"}
                THEN <<hunk[n][1]>> \o normalize_indentation(Tail(hunk[n]))
                ELSE hunk[n]]))

----------------------------------------------------------------------------
(* udiff.py: the hunk parser                                               *)

\* the backquote character (a TLA+ string cannot hold it)
BQ == "backquote"
FenceDiff == <<BQ, BQ, BQ, "d", "i", "f", "f">>
Fence == <<BQ, BQ, BQ>>
HunkMarker == <<"@", "@", " ">>
OldFile == <<"-", "-", "-", " ">>
NewFile == <<"+", "+", "+", " ">>
\* udiff.py:135, the marker appended to a fenced block
BlockEnd == <<"@", "@", " ", "@", "@">>
\* udiff.py:72, the header of the synthetic hunk
SyntheticHeader ==
    <<"@", "@", " ", "-", "1", ",", "1", " ", "+", "1", ",", "1", " ", "@", "@", "\n">>

IsEditLine(line) == StartsWith(line, <<"+">>) \/ StartsWith(line, <<"-">>)
HasEditLine(hunk) == \E n \in 1..Len(hunk) : IsEditLine(hunk[n])

\* An edit is the pair (fname, hunk) of the code; fname is None or a text.
Edit(fname, hunk) == [fname |-> fname, hunk |-> hunk]

\* FencedStep without the keeper test of udiff.py:168: every hunk marker
\* closes a hunk, with or without an edit line before it
FencedStepNoKeeper(st, line) ==
    LET hunk == Append(st.hunk, line)
        n == Len(hunk)
    IN IF Len(line) < 2 THEN [st EXCEPT !.hunk = hunk]
       ELSE IF StartsWith(line, NewFile) /\ n >= 2 /\ StartsWith(hunk[n - 1], OldFile)
       THEN [edits |-> Append(st.edits,
                         Edit(st.fname,
                              IF n > 2 /\ hunk[n - 2] = <<NL>>
                              THEN Take(hunk, n - 3) ELSE Take(hunk, n - 2))),
             fname |-> SomeText(Strip(Drop(line, 4))),
             hunk |-> <<>>,
             keeper |-> FALSE]
       ELSE IF line[1] \in {"-", "+"} THEN [st EXCEPT !.hunk = hunk, !.keeper = TRUE]
       ELSE IF line[1] # "@" THEN [st EXCEPT !.hunk = hunk]
       ELSE [st EXCEPT !.edits = Append(@, Edit(st.fname, Take(hunk, n - 1))),
                       !.hunk = <<>>,
                       !.keeper = FALSE]

\* udiff.py:143-175, the body of the loop over the block's lines; the state
\* is the code's locals edits, fname, hunk, keeper
FencedStep(st, line) ==
    LET hunk == Append(st.hunk, line)
        n == Len(hunk)
    IN IF Len(line) < 2 THEN [st EXCEPT !.hunk = hunk]
       ELSE IF StartsWith(line, NewFile) /\ n >= 2 /\ StartsWith(hunk[n - 1], OldFile)
       THEN [edits |-> Append(st.edits,
                         Edit(st.fname,
                              IF n > 2 /\ hunk[n - 2] = <<NL>>
                              THEN Take(hunk, n - 3) ELSE Take(hunk, n - 2))),
             fname |-> SomeText(Strip(Drop(line, 4))),
             hunk |-> <<>>,
             keeper |-> FALSE]
       ELSE IF line[1] \in {"-", "+"} THEN [st EXCEPT !.hunk = hunk, !.keeper = TRUE]
       ELSE IF line[1] # "@" THEN [st EXCEPT !.hunk = hunk]
       ELSE IF ~st.keeper THEN [st EXCEPT !.hunk = <<>>]
       ELSE [st EXCEPT !.edits = Append(@, Edit(st.fname, Take(hunk, n - 1))),
                       !.hunk = <<>>,
                       !.keeper = FALSE]

RECURSIVE FencedLoop(_, _)
FencedLoop(st, block) ==
    IF block = <<>> THEN st ELSE FencedLoop(FencedStep(st, Head(block)), Tail(block))

\* process_fenced_block(lines, start_line_num): <<next line number, edits>>
process_fenced_block(lines, start_line_num) ==
    LET closing == {k \in start_line_num..(Len(lines) - 1) : StartsWith(lines[k + 1], Fence)}
        end_line_num == IF closing = {} THEN Len(lines) ELSE SetMin(closing)
        block == Append(Slice(lines, start_line_num, end_line_num), BlockEnd)
        st == FencedLoop([edits |-> <<>>, fname |-> NoText, hunk |-> <<>>, keeper |-> FALSE],
                         block)
    IN <<end_line_num + 1, st.edits>>

RECURSIVE MarkdownLoop(_, _, _)
MarkdownLoop(lines, line_num, edits) ==
    IF line_num >= Len(lines) THEN edits
    ELSE IF StartsWith(lines[line_num + 1], FenceDiff)
    THEN LET r == process_fenced_block(lines, line_num + 1)
         IN MarkdownLoop(lines, r[1], edits \o r[2])
    ELSE MarkdownLoop(lines, line_num + 1, edits)

find_diffs_in_markdown(content0) ==
    MarkdownLoop(SplitLinesKeep(normalize_line_endings(content0)), 0, <<>>)

\* udiff.py:101-115, the body of the loop; the state is edits, current_hunk, fname
UnifiedStep(st, line) ==
    IF StartsWith(line, HunkMarker)
    THEN [st EXCEPT !.edits = IF st.current_hunk # <<>> /\ HasEditLine(st.current_hunk)
                              THEN Append(@, Edit(st.fname, st.current_hunk)) ELSE @,
                    !.current_hunk = <<line>>]
    ELSE IF StartsWith(line, OldFile) THEN st
    ELSE IF StartsWith(line, NewFile)
    THEN [st EXCEPT !.fname = SomeText(Strip(Drop(line, 4))), !.current_hunk = <<>>]
    ELSE IF st.current_hunk # <<>> \/ StartsWith(line, <<SP>>) \/ IsEditLine(line)
    THEN [st EXCEPT !.current_hunk = Append(@, line)]
    ELSE st

RECURSIVE UnifiedLoop(_, _)
UnifiedLoop(st, lines) ==
    IF lines = <<>> THEN st ELSE UnifiedLoop(UnifiedStep(st, Head(lines)), Tail(lines))

parse_unified_diff(lines) ==
    LET st == UnifiedLoop([edits |-> <<>>, current_hunk |-> <<>>, fname |-> NoText], lines)
    IN IF st.current_hunk # <<>> /\ HasEditLine(st.current_hunk)
       THEN Append(st.edits, Edit(st.fname, st.current_hunk))
       ELSE st.edits

IsHunkLine(l) == IsEditLine(l) \/ StartsWith(l, <<SP>>)

\* find_diffs with the tests of udiff.py:63 and udiff.py:67 exchanged: a
\* hunk marker anywhere makes the text a bare unified diff, fenced or not
find_diffs_marker_first(content0) ==
    LET normalized == normalize_line_endings(content0)
        content == IF normalized # <<>> /\ normalized[Len(normalized)] = NL
                   THEN normalized ELSE normalized \o <<NL>>
        lines == SplitLinesKeep(content)
    IN IF \E n \in 1..Len(lines) : StartsWith(lines[n], HunkMarker)
       THEN parse_unified_diff(lines)
       ELSE IF \E n \in 1..Len(lines) : StartsWith(lines[n], FenceDiff)
       THEN find_diffs_in_markdown(content)
       ELSE IF \E n \in 1..Len(lines) : IsEditLine(lines[n])
       THEN <<Edit(NoText, <<SyntheticHeader>> \o SelectSeq(lines, IsHunkLine))>>
       ELSE <<>>

find_diffs(content0) ==
    LET normalized == normalize_line_endings(content0)
        content == IF normalized # <<>> /\ normalized[Len(normalized)] = NL
                   THEN normalized ELSE normalized \o <<NL>>
        lines == SplitLinesKeep(content)
    IN IF \E n \in 1..Len(lines) : StartsWith(lines[n], FenceDiff)
       THEN find_diffs_in_markdown(content)
       ELSE IF \E n \in 1..Len(lines) : StartsWith(lines[n], HunkMarker)
       THEN parse_unified_diff(lines)
       ELSE IF \E n \in 1..Len(lines) : IsEditLine(lines[n])
       THEN <<Edit(NoText, <<SyntheticHeader>> \o SelectSeq(lines, IsHunkLine))>>
       ELSE <<>>

----------------------------------------------------------------------------
(* search_replace.py: RelativeIndenter                                     *)

\* the arrow character, and the character of code point 0x10FFFF
ARROW == "U+2190"
LastCodepoint == "U+10FFFF"

\* __init__ and select_unique_marker: the outdent marker for the texts, the
\* arrow unless one of them holds it; then the first code point from
\* 0x10FFFF down that is in none of them, and no text here holds that one
select_unique_marker(chars) == LastCodepoint
RelativeIndenter(texts) ==
    LET chars == UNION {Range(texts[n]) : n \in 1..Len(texts)}
    IN IF ARROW \notin chars THEN ARROW ELSE select_unique_marker(chars)

\* What a method gives back: a text, or the exception it raised
IndenterResult(t) == [called |-> TRUE, raised |-> "none", text |-> t]
IndenterRaised(e) == [called |-> TRUE, raised |-> e, text |-> <<>>]
NotCalled == [called |-> FALSE, raised |-> "none", text |-> <<>>]

\* search_replace.py:108-126, the loop of make_relative over the lines
RECURSIVE RelativeLines(_, _, _)
RelativeLines(marker, lines, prev_indent) ==
    IF lines = <<>> THEN <<>>
    ELSE LET line_without_end == RStripNewlines(Head(lines))
             len_indent == Len(line_without_end) - Len(LStrip(line_without_end))
             indent == Take(Head(lines), len_indent)
             change == len_indent - Len(prev_indent)
             cur_indent == IF change > 0 THEN SubSeq(indent, len_indent - change + 1, len_indent)
                           ELSE IF change < 0 THEN [k \in 1..(0 - change) |-> marker]
                           ELSE <<>>
         IN (cur_indent \o <<NL>> \o Drop(Head(lines), len_indent))
            \o RelativeLines(marker, Tail(lines), indent)

make_relative(marker, text) ==
    IF marker \in Range(text) THEN IndenterRaised("ValueError")
    ELSE IndenterResult(RelativeLines(marker, SplitLinesKeep(text), <<>>))

\* search_replace.py:139-155, the loop of make_absolute over the pairs of
\* lines from the i-th line on; lines[i + 1] of a last line that has no
\* partner raises IndexError
RECURSIVE AbsoluteLines(_, _, _, _)
AbsoluteLines(marker, lines, i, prev_indent) ==
    IF i >= Len(lines) THEN IndenterResult(<<>>)
    ELSE IF i + 1 >= Len(lines) THEN IndenterRaised("IndexError")
    ELSE LET dent == RStripNewlines(lines[i + 1])
             non_indent == lines[i + 2]
             cur_indent == IF StartsWith(dent, <<marker>>)
                           THEN Take(prev_indent, Max2(0, Len(prev_indent) - Len(dent)))
                           ELSE prev_indent \o dent
             out_line == IF RStripNewlines(non_indent) = <<>> THEN non_indent
                         ELSE cur_indent \o non_indent
             rest == AbsoluteLines(marker, lines, i + 2, cur_indent)
         IN IF rest.raised # "none" THEN rest
            ELSE IndenterResult(out_line \o rest.text)

\* search_replace.py:157-162, on the result res of the loop
AbsoluteResult(marker, res) ==
    IF res.raised = "none" /\ marker \in Range(res.text) THEN IndenterRaised("ValueError")
    ELSE res

make_absolute(marker, text) ==
    AbsoluteResult(marker, AbsoluteLines(marker, SplitLinesKeep(text), 0, <<>>))

----------------------------------------------------------------------------
(* The inputs of the model                                                 *)

\* Bounds of the explored inputs
MaxNormalizations == 2
MaxDocLines == 4
MaxHunkLines == 3
MaxContext == 2
MaxSeqLines == 2
MaxDiffLines == 4

LA == <<"a", NL>>
LB == <<"b", NL>>
LC == <<"c", NL>>
\* the lines a document is made of, and the payloads a hunk line may carry
DocPayloads == {LA, LB}
Payloads == {LA, LB, LC}

SeqsUpTo(S, n) == UNION {[1..k -> S] : k \in 0..n}

DocumentLines == SeqsUpTo(DocPayloads, MaxDocLines)
TaggedLines == {<<op>> \o payload : op \in {" ", "-", "+"}, payload \in Payloads}
Hunks == SeqsUpTo(TaggedLines, MaxHunkLines) \ {<<>>}

\* The hunks an editor of the document lines would write: one line deleted,
\* one added, up to MaxContext lines of context on each side, and at most one
\* context line that has drifted from the document.
EditHunks(lines) ==
    {h \in UNION {
        LET pre == SubSeq(lines, Max2(1, i - MaxContext), i - 1)
            post == SubSeq(lines, i + 1, Min2(Len(lines), i + MaxContext))
            exact == Tagged(" ", pre) \o <<<<"-">> \o lines[i], <<"+">> \o new>>
                     \o Tagged(" ", post)
            ctx == {k \in 1..Len(exact) : exact[k][1] = " "}
        IN {exact} \cup {[exact EXCEPT ![k] = <<" ">> \o q] : k \in ctx, q \in Payloads}
        : i \in 1..Len(lines), new \in Payloads} : Len(h) > MaxHunkLines}

BeforePayloads(h) == {Tail(h[n]) : n \in {k \in 1..Len(h) : h[k][1] \in {" ", "-"}}}
AddedPayloads(h) == {Tail(h[n]) : n \in {k \in 1..Len(h) : h[k][1] = "+"}}

\* Diffs of two hunks in which the second hunk locates itself by lines that
\* only the first hunk adds to the document.
SequentialDiffs(lines) ==
    IF Len(lines) > MaxSeqLines THEN {}
    ELSE LET short == SeqsUpTo(TaggedLines, MaxSeqLines) \ {<<>>}
         IN {<<h1, h2>> : h1 \in short,
                          h2 \in {h \in short : /\ BeforePayloads(h) # {}
                                                /\ BeforePayloads(h) \cap Range(lines) = {}
                                                /\ AddedPayloads(h) # {}}}

Diffs(lines) ==
    {<<h>> : h \in Hunks \cup EditHunks(lines)}
    \cup {d \in SequentialDiffs(lines) : BeforePayloads(d[2]) \subseteq AddedPayloads(d[1])}

\* the lines a diff text is made of
DiffLines ==
    { FenceDiff \o <<NL>>, Fence \o <<NL>>,
      <<"@", "@", " ", "-", "1", " ", "+", "1", " ", "@", "@", NL>>,
      <<" ", "a", NL>>, <<"-", "a", NL>>, <<"+", "b", NL>>,
      OldFile \o <<"x", NL>>, NewFile \o <<"y", NL>>, <<NL>> }
\* a diff text, with or without its final newline
DiffTexts ==
    {Join(ls) : ls \in SeqsUpTo(DiffLines, MaxDiffLines)}
    \cup {LET t == Join(ls) IN Take(t, Len(t) - 1) :
            ls \in SeqsUpTo(DiffLines, MaxDiffLines) \ {<<>>}}

----------------------------------------------------------------------------
(* The state                                                               *)

VARIABLES
    document,       \* the text of the target as it stands
    target_exists,  \* os.path.exists(fname)
    pending,        \* the hunks of the diff not yet applied
    applied,        \* the number of hunks handed to do_replace so far
    hunk,           \* the hunk last handed to do_replace
    original,       \* the document that last call was given
    outcome,        \* what that call gave back
    initial,        \* the document, the target's existence and the diff at the start
    diff_text,      \* the diff text given to find_diffs
    parsed,         \* whether find_diffs has run
    found,          \* the edits find_diffs returned
    failures,       \* the hunks of the diff that failed so far, with the failure
    report,         \* what the engine reported once the diff was done
    line,           \* a line given to normalize_indentation
    indented,       \* its results: of the line, then of the result before
    raw_hunk,       \* a hunk given to normalize_hunk
    normalized_hunk, \* what normalize_hunk gave back for it
    nodes,          \* VirtualAgenticSystem.nodes: the names of the nodes
    node_functions, \* the names node_functions has an entry for
    edges,          \* the list of (source, target) pairs
    conditional_edges, \* source -> edge_info
    entry_point,
    finish_point,
    last,           \* the last operation on the system, and how it ended
    indenter_text,  \* a text given to a RelativeIndenter
    relative_text,  \* what make_relative gave back for it
    absolute_text   \* what make_absolute gave back for that

engineVars == <<document, target_exists, pending, applied, hunk, original, outcome, initial,
                failures, report>>
parseVars == <<diff_text, parsed, found>>
helperVars == <<line, indented, raw_hunk, normalized_hunk, indenter_text, relative_text,
                absolute_text>>
systemVars == <<nodes, node_functions, edges, conditional_edges, entry_point, finish_point,
                last>>
vars == <<engineVars, parseVars, helperVars, systemVars>>

NoOutcome == Outcome(ReturnedNone, "none", FALSE, NoSections)

\* One call of do_replace with the next hunk of the diff.  The caller keeps
\* the returned document as the working document for the next hunk.
NextDocument(doc, r) == IF r.kind = "doc" THEN r.doc ELSE doc

\* RecordFailure keeping the latest failure only
RecordLastFailure(failed, n, r) ==
    IF r.kind = "doc" THEN failed ELSE <<[hunk |-> n, kind |-> r.kind]>>

\* A failure is recorded with the number of its hunk; the next hunk follows.
RecordFailure(failed, n, r) ==
    IF r.kind = "doc" THEN failed ELSE Append(failed, [hunk |-> n, kind |-> r.kind])

NoReport == [done |-> FALSE, attempted |-> 0, failed |-> <<>>]

ApplyNext ==
    /\ pending # <<>>
    /\ outcome' = do_replace(target_exists, document, Head(pending))
    /\ document' = NextDocument(document, outcome')
    /\ target_exists' = (target_exists \/ outcome'.touched)
    /\ failures' = RecordFailure(failures, applied + 1, outcome')
    /\ hunk' = Head(pending)
    /\ original' = document
    /\ pending' = Tail(pending)
    /\ applied' = applied + 1
    /\ UNCHANGED <<initial, report, parseVars, helperVars, systemVars>>

Parse ==
    /\ ~parsed
    /\ parsed' = TRUE
    /\ found' = find_diffs(diff_text)
    /\ UNCHANGED <<diff_text, engineVars, helperVars, systemVars>>

\* Once every hunk has been attempted the engine reports, once, the failures
\* of all of them together.
Report ==
    /\ pending = <<>>
    /\ applied > 0
    /\ ~report.done
    /\ report' = [done |-> TRUE, attempted |-> applied, failed |-> failures]
    /\ UNCHANGED <<document, target_exists, pending, applied, hunk, original, outcome,
                   initial, failures, parseVars, helperVars, systemVars>>

\* normalize_indentation applied to the line, then to its own result
NormalizeIndentation ==
    /\ Len(indented) < MaxNormalizations
    /\ indented' = Append(indented,
                          normalize_indentation(IF indented = <<>> THEN line
                                                ELSE indented[Len(indented)]))
    /\ UNCHANGED <<line, raw_hunk, normalized_hunk, indenter_text, relative_text,
                   absolute_text, engineVars, parseVars, systemVars>>

NotNormalized == [called |-> FALSE, ok |-> FALSE, hunk |-> <<>>]

NormalizeHunk ==
    /\ ~normalized_hunk.called
    /\ normalized_hunk' = [called |-> TRUE, ok |-> normalize_hunk(raw_hunk).ok,
                           hunk |-> normalize_hunk(raw_hunk).hunk]
    /\ UNCHANGED <<line, indented, raw_hunk, indenter_text, relative_text, absolute_text,
                   engineVars, parseVars, systemVars>>

NoLine == line = <<>> /\ indented = <<>>
NoRelativeText ==
    indenter_text = <<>> /\ relative_text = NotCalled /\ absolute_text = NotCalled

\* relative_indent of one text: a RelativeIndenter for it, then make_relative
MakeRelative ==
    /\ ~relative_text.called
    /\ relative_text' = make_relative(RelativeIndenter(<<indenter_text>>), indenter_text)
    /\ UNCHANGED <<indenter_text, absolute_text, line, indented, raw_hunk, normalized_hunk,
                   engineVars, parseVars, systemVars>>

\* make_absolute of the relative text, by the same RelativeIndenter
MakeAbsolute ==
    /\ relative_text.called
    /\ relative_text.raised = "none"
    /\ ~absolute_text.called
    /\ absolute_text' = make_absolute(RelativeIndenter(<<indenter_text>>), relative_text.text)
    /\ UNCHANGED <<indenter_text, relative_text, line, indented, raw_hunk, normalized_hunk,
                   engineVars, parseVars, systemVars>>
NoRawHunk == raw_hunk = <<>> /\ normalized_hunk = NotNormalized

----------------------------------------------------------------------------
(* virtual_agentic_system.py: VirtualAgenticSystem                         *)

None == "None"
\* edge_info without a "path_map" key
NoPathMap == [has |-> FALSE, map |-> <<>>]
PathMap(m) == [has |-> TRUE, map |-> m]
Values(f) == {f[x] : x \in DOMAIN f}

Ended(op, name, result) == [op |-> op, name |-> name, result |-> result]

\* __init__
NewSystem ==
    /\ nodes = {}
    /\ node_functions = {}
    /\ edges = <<>>
    /\ conditional_edges = <<>>
    /\ entry_point = None
    /\ finish_point = None
    /\ last = Ended("__init__", None, "True")

create_node(name) ==
    /\ nodes' = nodes \cup {name}
    /\ node_functions' = node_functions \cup {name}
    /\ last' = Ended("create_node", name, "True")
    /\ UNCHANGED <<edges, conditional_edges, entry_point, finish_point>>

set_entry_point(entry_node) ==
    IF entry_node \notin nodes
    THEN /\ last' = Ended("set_entry_point", entry_node, "ValueError")
         /\ UNCHANGED <<nodes, node_functions, edges, conditional_edges, entry_point,
                        finish_point>>
    ELSE /\ entry_point' = entry_node
         /\ last' = Ended("set_entry_point", entry_node, "None")
         /\ UNCHANGED <<nodes, node_functions, edges, conditional_edges, finish_point>>

set_finish_point(finish_node) ==
    IF finish_node \notin nodes
    THEN /\ last' = Ended("set_finish_point", finish_node, "ValueError")
         /\ UNCHANGED <<nodes, node_functions, edges, conditional_edges, entry_point,
                        finish_point>>
    ELSE /\ finish_point' = finish_node
         /\ last' = Ended("set_finish_point", finish_node, "None")
         /\ UNCHANGED <<nodes, node_functions, edges, conditional_edges, entry_point>>

\* create_edge without the test of virtual_agentic_system.py:114-115: a
\* source may get a second outgoing edge
create_edge_parallel(source, target) ==
    IF \/ source \notin nodes
       \/ target \notin nodes
    THEN /\ last' = Ended("create_edge", source, "ValueError")
         /\ UNCHANGED <<nodes, node_functions, edges, conditional_edges, entry_point,
                        finish_point>>
    ELSE /\ edges' = Append(edges, <<source, target>>)
         /\ last' = Ended("create_edge", source, "True")
         /\ UNCHANGED <<nodes, node_functions, conditional_edges, entry_point, finish_point>>

create_edge(source, target) ==
    IF \/ source \notin nodes
       \/ target \notin nodes
       \/ \E n \in 1..Len(edges) : edges[n][1] = source
    THEN /\ last' = Ended("create_edge", source, "ValueError")
         /\ UNCHANGED <<nodes, node_functions, edges, conditional_edges, entry_point,
                        finish_point>>
    ELSE /\ edges' = Append(edges, <<source, target>>)
         /\ last' = Ended("create_edge", source, "True")
         /\ UNCHANGED <<nodes, node_functions, conditional_edges, entry_point, finish_point>>

\* path_map is None (NoPathMap) or a map from the router's results to nodes
create_conditional_edge(source, path_map) ==
    IF \/ source \notin nodes
       \/ path_map.has /\ \E target \in Values(path_map.map) : target \notin nodes
    THEN /\ last' = Ended("create_conditional_edge", source, "ValueError")
         /\ UNCHANGED <<nodes, node_functions, edges, conditional_edges, entry_point,
                        finish_point>>
    ELSE /\ conditional_edges' =
               [s \in DOMAIN conditional_edges \cup {source} |->
                   IF s = source THEN path_map ELSE conditional_edges[s]]
         /\ last' = Ended("create_conditional_edge", source, "True")
         /\ UNCHANGED <<nodes, node_functions, edges, entry_point, finish_point>>

\* delete_node keeping the edges that start or end at the node
delete_node_keeping_edges(name) ==
    IF name \notin nodes
    THEN /\ last' = Ended("delete_node", name, "False")
         /\ UNCHANGED <<nodes, node_functions, edges, conditional_edges, entry_point,
                        finish_point>>
    ELSE /\ nodes' = nodes \ {name}
         /\ node_functions' = node_functions \ {name}
         /\ conditional_edges' =
               [s \in DOMAIN conditional_edges \ {name} |-> conditional_edges[s]]
         /\ edges' = edges
         /\ entry_point' = IF entry_point = name THEN None ELSE entry_point
         /\ finish_point' = IF finish_point = name THEN None ELSE finish_point
         /\ last' = Ended("delete_node", name, "True")

delete_node(name) ==
    IF name \notin nodes
    THEN /\ last' = Ended("delete_node", name, "False")
         /\ UNCHANGED <<nodes, node_functions, edges, conditional_edges, entry_point,
                        finish_point>>
    ELSE /\ nodes' = nodes \ {name}
         /\ node_functions' = node_functions \ {name}
         /\ conditional_edges' =
               [s \in DOMAIN conditional_edges \ {name} |-> conditional_edges[s]]
         /\ edges' = SelectSeq(edges, LAMBDA e : e[1] # name /\ e[2] # name)
         /\ entry_point' = IF entry_point = name THEN None ELSE entry_point
         /\ finish_point' = IF finish_point = name THEN None ELSE finish_point
         /\ last' = Ended("delete_node", name, "True")

\* list.remove: the first occurrence of the edge goes
delete_edge(source, target) ==
    IF \E n \in 1..Len(edges) : edges[n] = <<source, target>>
    THEN /\ edges' = LET first == SetMin({n \in 1..Len(edges) : edges[n] = <<source, target>>})
                     IN SubSeq(edges, 1, first - 1) \o SubSeq(edges, first + 1, Len(edges))
         /\ last' = Ended("delete_edge", source, "True")
         /\ UNCHANGED <<nodes, node_functions, conditional_edges, entry_point, finish_point>>
    ELSE /\ last' = Ended("delete_edge", source, "False")
         /\ UNCHANGED <<nodes, node_functions, edges, conditional_edges, entry_point,
                        finish_point>>

delete_conditional_edge(source) ==
    IF source \in DOMAIN conditional_edges
    THEN /\ conditional_edges' =
               [s \in DOMAIN conditional_edges \ {source} |-> conditional_edges[s]]
         /\ last' = Ended("delete_conditional_edge", source, "True")
         /\ UNCHANGED <<nodes, node_functions, edges, entry_point, finish_point>>
    ELSE /\ last' = Ended("delete_conditional_edge", source, "False")
         /\ UNCHANGED <<nodes, node_functions, edges, conditional_edges, entry_point,
                        finish_point>>

NoDiffText ==
    /\ diff_text = <<>>
    /\ parsed = TRUE
    /\ found = <<>>

NoDocument ==
    /\ document = <<>>
    /\ target_exists = TRUE
    /\ pending = <<>>
    /\ applied = 0
    /\ hunk = <<>>
    /\ original = <<>>
    /\ outcome = NoOutcome
    /\ initial = [document |-> <<>>, target_exists |-> TRUE, hunks |-> <<>>]
    /\ failures = <<>>
    /\ report = NoReport

\* A target that exists holds any document; one that does not exist yet has
\* no content.
Init ==
    /\ \E lines \in DocumentLines :
          /\ document = Join(lines)
          /\ pending \in Diffs(lines)
          /\ target_exists \in (IF lines = <<>> THEN BOOLEAN ELSE {TRUE})
    /\ applied = 0
    /\ hunk = <<>>
    /\ original = document
    /\ outcome = NoOutcome
    /\ initial = [document |-> document, target_exists |-> target_exists, hunks |-> pending]
    /\ failures = <<>>
    /\ report = NoReport
    /\ NoDiffText
    /\ NoLine
    /\ NoRawHunk
    /\ NewSystem
    /\ NoRelativeText

Next == ApplyNext

Spec == Init /\ [][Next]_vars

ParseInit ==
    /\ diff_text \in DiffTexts
    /\ parsed = FALSE
    /\ found = <<>>
    /\ NoDocument
    /\ NoLine
    /\ NoRawHunk
    /\ NewSystem
    /\ NoRelativeText

ParseNext == Parse

ParseSpec == ParseInit /\ [][ParseNext]_vars

(* One call of do_replace with any arguments: the content is a parameter of  *)
(* its own, whatever the target holds and whether or not it exists, and the  *)
(* lines may differ in their whitespace.                                     *)
MaxCallDocLines == 3
MaxCallHunkLines == 2

LAT == <<"a", SP, NL>>
LIC == <<SP, SP, "c", NL>>
CallDocPayloads == {LAT, LB}
CallPayloads == {LA, LAT, LB, LIC}
CallHunks ==
    SeqsUpTo({<<op>> \o payload : op \in {" ", "-", "+"}, payload \in CallPayloads},
             MaxCallHunkLines) \ {<<>>}

CallInit ==
    /\ \E lines \in SeqsUpTo(CallDocPayloads, MaxCallDocLines) : document = Join(lines)
    /\ \E h \in CallHunks : pending = <<h>>
    /\ target_exists \in BOOLEAN
    /\ applied = 0
    /\ hunk = <<>>
    /\ original = document
    /\ outcome = NoOutcome
    /\ initial = [document |-> document, target_exists |-> target_exists, hunks |-> pending]
    /\ failures = <<>>
    /\ report = NoReport
    /\ NoDiffText
    /\ NoLine
    /\ NoRawHunk
    /\ NewSystem
    /\ NoRelativeText

CallSpec == CallInit /\ [][Next]_vars

(* A diff of up to MaxEngineHunks one-line hunks applied hunk by hunk to a    *)
(* document of up to MaxEngineDocLines lines, and reported on at the end     *)
MaxEngineDocLines == 3
MaxEngineHunks == 3
EngineHunks == {<<<<op>> \o payload>> : op \in {"-", "+"}, payload \in {LA, LB}}
EngineInit ==
    /\ \E lines \in SeqsUpTo(DocPayloads, MaxEngineDocLines) : document = Join(lines)
    /\ pending \in SeqsUpTo(EngineHunks, MaxEngineHunks) \ {<<>>}
    /\ target_exists = TRUE
    /\ applied = 0
    /\ hunk = <<>>
    /\ original = document
    /\ outcome = NoOutcome
    /\ initial = [document |-> document, target_exists |-> target_exists, hunks |-> pending]
    /\ failures = <<>>
    /\ report = NoReport
    /\ NoDiffText
    /\ NoLine
    /\ NoRawHunk
    /\ NewSystem
    /\ NoRelativeText

EngineNext == ApplyNext \/ Report

EngineSpec == EngineInit /\ [][EngineNext]_vars

(* The operations of a VirtualAgenticSystem, in any order, on the names of    *)
(* Names and with the path maps of PathMaps                                  *)
Names == {"n1", "n2"}
PathMaps == {NoPathMap} \cup {PathMap([k \in {"k"} |-> n]) : n \in Names}

otherVars == <<engineVars, parseVars, helperVars>>

CreateNode ==
    /\ \E name \in Names : create_node(name)
    /\ UNCHANGED otherVars
SetEntryPoint ==
    /\ \E name \in Names : set_entry_point(name)
    /\ UNCHANGED otherVars
SetFinishPoint ==
    /\ \E name \in Names : set_finish_point(name)
    /\ UNCHANGED otherVars
CreateEdge ==
    /\ \E source \in Names, target \in Names : create_edge(source, target)
    /\ UNCHANGED otherVars
CreateConditionalEdge ==
    /\ \E source \in Names, path_map \in PathMaps : create_conditional_edge(source, path_map)
    /\ UNCHANGED otherVars
DeleteNode ==
    /\ \E name \in Names : delete_node(name)
    /\ UNCHANGED otherVars
DeleteEdge ==
    /\ \E source \in Names, target \in Names : delete_edge(source, target)
    /\ UNCHANGED otherVars
DeleteConditionalEdge ==
    /\ \E source \in Names : delete_conditional_edge(source)
    /\ UNCHANGED otherVars

SystemInit ==
    /\ NewSystem
    /\ NoRelativeText
    /\ NoDocument
    /\ NoDiffText
    /\ NoLine
    /\ NoRawHunk

SystemNext ==
    \/ CreateNode
    \/ SetEntryPoint
    \/ SetFinishPoint
    \/ CreateEdge
    \/ CreateConditionalEdge
    \/ DeleteNode
    \/ DeleteEdge
    \/ DeleteConditionalEdge

SystemSpec == SystemInit /\ [][SystemNext]_vars

(* normalize_indentation on lines of up to MaxIndent leading spaces          *)
MaxIndent == 9
LineBodies ==
    { <<>>, <<NL>>, <<"x", NL>>, <<"x">>, <<"\t", "x", NL>>, <<"x", SP, SP, "y", NL>>,
      <<"\t", NL>> }
IndentInit ==
    /\ \E n \in 0..MaxIndent, body \in LineBodies : line = Spaces(n) \o body
    /\ indented = <<>>
    /\ NoRawHunk
    /\ NoDocument
    /\ NoDiffText
    /\ NewSystem
    /\ NoRelativeText

IndentNext == NormalizeIndentation

IndentSpec == IndentInit /\ [][IndentNext]_vars

(* normalize_hunk on hunks of up to MaxRawHunkLines lines, whitespace-only   *)
(* lines among them                                                          *)
MaxRawHunkLines == 3
LW == <<SP, SP, NL>>
RawHunks ==
    SeqsUpTo({<<op>> \o payload : op \in {" ", "-", "+"}, payload \in {LA, LB, LW}},
             MaxRawHunkLines) \ {<<>>}
NormalizeInit ==
    /\ raw_hunk \in RawHunks
    /\ normalized_hunk = NotNormalized
    /\ NoLine
    /\ NoDocument
    /\ NoDiffText
    /\ NewSystem
    /\ NoRelativeText

NormalizeNext == NormalizeHunk

NormalizeSpec == NormalizeInit /\ [][NormalizeNext]_vars

(* A RelativeIndenter on texts of up to MaxIndenterLines lines, indented by *)
(* spaces or a tab, blank and whitespace-only lines among them, the last    *)
(* line with or without its newline                                         *)
MaxIndenterLines == 3
Indents == {<<>>, <<SP>>, <<SP, SP>>, <<"\t">>}
IndenterLines ==
    {indent \o rest \o <<NL>> : indent \in Indents, rest \in {<<>>, <<"a">>, <<ARROW>>}}
IndenterTexts ==
    {Join(ls) : ls \in SeqsUpTo(IndenterLines, MaxIndenterLines)}
    \cup {LET t == Join(ls) IN Take(t, Len(t) - 1) :
            ls \in SeqsUpTo(IndenterLines, MaxIndenterLines) \ {<<>>}}

IndenterInit ==
    /\ indenter_text \in IndenterTexts
    /\ relative_text = NotCalled
    /\ absolute_text = NotCalled
    /\ NoLine
    /\ NoRawHunk
    /\ NoDocument
    /\ NoDiffText
    /\ NewSystem

IndenterNext == MakeRelative \/ MakeAbsolute

IndenterSpec == IndenterInit /\ [][IndenterNext]_vars

----------------------------------------------------------------------------
(* Properties of do_replace, stated on the state after a call              *)

\* every start position of sub in s, overlapping occurrences included
Occurrences(s, sub) == {i \in 0..(Len(s) - Len(sub)) : SubSeq(s, i + 1, i + Len(sub)) = sub}
\* s with the Len(old) characters at position i replaced by new
ReplacedAt(s, i, old, new) == Take(s, i) \o new \o Drop(s, i + Len(old))

Called == applied > 0
\* whether the target existed when the last call was made
ExistedBefore == target_exists /\ ~outcome.touched
before_text == hunk_to_before_after(hunk)[1]
after_text == hunk_to_before_after(hunk)[2]
DeletedPayloads(h) ==
    SelectSeq([n \in 1..Len(h) |-> IF h[n] # <<>> /\ h[n][1] = "-"
                                   THEN <<normalize_indentation(Tail(h[n]))>> ELSE <<>>],
              LAMBDA x : x # <<>>)
InsertedPayloads(h) ==
    SelectSeq([n \in 1..Len(h) |-> IF h[n] # <<>> /\ h[n][1] = "+"
                                   THEN <<normalize_indentation(Tail(h[n]))>> ELSE <<>>],
              LAMBDA x : x # <<>>)
Occurs(lines, l) == Cardinality({n \in 1..Len(lines) : lines[n] = l})

\* C1: on an existing target, a hunk whose non-empty before text occurs at
\* exactly one position of the document makes do_replace return the document
\* with that occurrence replaced by the after text and nothing else changed.
C1_UniqueEditApplied ==
    (Called /\ ExistedBefore /\ before_text # <<>>
        /\ Cardinality(Occurrences(original, before_text)) = 1)
    => /\ outcome.kind = "doc"
       /\ \A i \in Occurrences(original, before_text) :
             outcome.doc = ReplacedAt(original, i, before_text, after_text)

\* C2: a hunk whose before text occurs at two or more start positions of the
\* document, overlapping or not, raises SearchTextNotUnique and returns no
\* document.
C2_DuplicateRaises ==
    (Called /\ ExistedBefore /\ before_text # <<>>
        /\ Cardinality(Occurrences(original, before_text)) >= 2)
    => outcome.kind = "SearchTextNotUnique"

\* whether a whole-hunk strategy finds the last hunk, as given or normalized
WholeHunkLocated ==
    \/ directly_apply_hunk(original, hunk).kind # "None"
    \/ /\ normalize_hunk(hunk).ok
       /\ directly_apply_hunk(original, normalize_hunk(hunk).hunk).kind # "None"

\* C3: when no strategy locates the hunk in a non-empty document - no
\* whole-hunk strategy, no attempt of the partial application, no window of
\* the last scan - do_replace reports failure and returns no document.
C3_NoMatchFails ==
    (Called /\ ExistedBefore /\ original # <<>> /\ outcome.kind = "doc"
        /\ outcome.via # "scan")
    => \/ \E n \in 1..Len(outcome.matched) : outcome.matched[n] > 0
       \/ WholeHunkLocated

\* C4: a document returned for a hunk has every change of the hunk applied
\* exactly once: line by line, it holds what the given document held, less
\* the hunk's delete lines, plus its add lines.
C4_EveryChangeOnce ==
    (Called /\ ExistedBefore /\ outcome.kind = "doc")
    => LET old == SplitLinesKeep(original)
           new == SplitLinesKeep(outcome.doc)
           del == DeletedPayloads(hunk)
           ins == InsertedPayloads(hunk)
       IN \A l \in Range(old) \cup Range(new) \cup Range(del) \cup Range(ins) :
             /\ Occurs(del, <<l>>) <= Occurs(old, l)
             /\ Occurs(new, l) = Occurs(old, l) - Occurs(del, <<l>>) + Occurs(ins, <<l>>)

\* C5: once SearchTextNotUnique has been raised while a hunk is applied, no
\* later attempt (less context, a later section, the last scan) changes the
\* document.
C5_AmbiguityIsFatal == (Called /\ outcome.raised) => ~outcome.late

\* C6: apply_partial_hunk is all-or-nothing: a document it returns has every
\* change section of the hunk located and applied; if one section finds no
\* match with any context, nothing is returned.
C6_PartialAllOrNothing ==
    (Called /\ outcome.kind = "doc" /\ outcome.via = "partial")
    => \A n \in 1..Len(outcome.matched) : outcome.matched[n] > 0

\* C7: a hunk of the form context, delete lines, add lines, context whose
\* whole before text is not in the document and that no whole-hunk strategy
\* finds, while its delete lines with the one context line next to them on
\* each side occur at exactly one place, is applied there: the document comes
\* back with those delete lines replaced by the add lines, nothing else changed.
C7_PartialFallbackApplies ==
    LET sections == extract_context_sections(hunk)
        payload(l) == normalize_indentation(Tail(l))
        text(ls) == Join([n \in 1..Len(ls) |-> payload(ls[n])])
        pre == payload(sections[1][2][Len(sections[1][2])])
        post == payload(sections[4][2][1])
        deleted == text(sections[2][2])
        added == text(sections[3][2])
        places == Occurrences(original, pre \o deleted \o post)
    IN (Called /\ ExistedBefore
          /\ Len(sections) = 4
          /\ <<sections[1][1], sections[2][1], sections[3][1], sections[4][1]>>
                = <<" ", "-", "+", " ">>
          /\ Occurrences(original, before_text) = {}
          /\ Cardinality(places) = 1
          /\ ~WholeHunkLocated)
       => /\ outcome.kind = "doc"
          /\ \A k \in places :
                outcome.doc = ReplacedAt(original, k + Len(pre), deleted, added)

\* C8: of two hunks applied in order, a second hunk whose context lines are
\* in the document only after the first hunk's edit is applied; the same
\* hunk on the document as it was at the start is reported as a failure.
C8_SecondHunkNeedsFirst ==
    (applied = 2 /\ initial.target_exists
        /\ BeforePayloads(hunk) # {}
        /\ \A l \in BeforePayloads(hunk) :
              /\ l \notin Range(SplitLinesKeep(initial.document))
              /\ l \in Range(SplitLinesKeep(original))
        /\ Cardinality(Occurrences(original, before_text)) = 1)
    => /\ outcome.kind = "doc"
       /\ \A i \in Occurrences(original, before_text) :
             outcome.doc = ReplacedAt(original, i, before_text, after_text)
       /\ do_replace(initial.target_exists, initial.document, hunk).kind # "doc"

----------------------------------------------------------------------------
(* Properties of find_diffs, stated on the state after Parse               *)

TextLines == SplitLinesKeep(diff_text)
NoEditLines == \A n \in 1..Len(TextLines) : ~IsEditLine(TextLines[n])

\* C9: a diff text in which no line starts with "+" or "-" gives no hunk,
\* whatever fences, hunk markers and context lines it holds.
C9_NoEditLinesNoHunks == (parsed /\ NoEditLines) => found = <<>>

\* a fenced block with a hunk marker and a context line, and no edit line
C9_Witness ==
    /\ parsed
    /\ NoEditLines
    /\ StartsWith(diff_text, FenceDiff)
    /\ \E n \in 1..Len(TextLines) : StartsWith(TextLines[n], HunkMarker)
    /\ \E n \in 1..Len(TextLines) : StartsWith(TextLines[n], <<SP>>)
    /\ found = <<>>

\* C10: every hunk find_diffs returns holds at least one add or delete line.
C10_EveryHunkHasEdit ==
    parsed => \A n \in 1..Len(found) : HasEditLine(found[n].hunk)

\* the lines find_diffs works on: the text, ended by a newline
DiffContentLines ==
    SplitLinesKeep(IF diff_text # <<>> /\ diff_text[Len(diff_text)] = NL
                   THEN diff_text ELSE diff_text \o <<NL>>)
AnyLine(prefix) == \E n \in 1..Len(DiffContentLines) : StartsWith(DiffContentLines[n], prefix)

\* C11: find_diffs chooses one dialect, in fixed priority: a line starting
\* with the diff fence - only the fenced blocks are parsed; else a line
\* starting with "@@ " - the text is a bare unified diff; else a line
\* starting with "+" or "-" - exactly one synthetic hunk; else nothing.
C11_DialectPriority ==
    parsed =>
       IF AnyLine(FenceDiff)
       THEN found = MarkdownLoop(DiffContentLines, 0, <<>>)
       ELSE IF AnyLine(HunkMarker)
       THEN found = parse_unified_diff(DiffContentLines)
       ELSE IF AnyLine(<<"+">>) \/ AnyLine(<<"-">>)
       THEN /\ Len(found) = 1
            /\ found[1].fname = NoText
            /\ found[1].hunk = <<SyntheticHeader>> \o SelectSeq(DiffContentLines, IsHunkLine)
       ELSE found = <<>>

\* a text with a fenced block and, outside it, a hunk marker followed by an
\* edit line: the two dialects give different hunks, the fenced one wins
C11_Witness ==
    /\ parsed
    /\ AnyLine(FenceDiff)
    /\ AnyLine(HunkMarker)
    /\ parse_unified_diff(DiffContentLines) # <<>>
    /\ found # parse_unified_diff(DiffContentLines)
    /\ found # <<>>

----------------------------------------------------------------------------
(* Properties of one call of do_replace with any arguments                 *)

\* C12: a hunk with an empty before text on a target that does not exist
\* makes do_replace return the hunk's after text, by no match strategy and
\* whatever the content; on a target that exists, such a hunk is never a
\* file creation.
C12_CreationOnlyWithoutTarget ==
    (Called /\ before_text = <<>>)
    => IF ExistedBefore
       THEN outcome.via # "create" /\ ~outcome.touched
       ELSE outcome.kind = "doc" /\ outcome.doc = after_text /\ outcome.via = "create"

\* a creation although content was passed in, with an indented line added
C12_Witness ==
    /\ Called
    /\ before_text = <<>>
    /\ ~ExistedBefore
    /\ original # <<>>
    /\ hunk = <<<<"+">> \o LIC>>
    /\ outcome.doc = after_text
    /\ outcome.doc # original

\* C13: applying a hunk only reads whether the target exists: the call
\* leaves the existence of the target as it was, and the same call made
\* again gives the same result.
C13_ExistenceOnlyRead ==
    Called => /\ ~outcome.touched
              /\ do_replace(target_exists, original, hunk).kind = outcome.kind
              /\ do_replace(target_exists, original, hunk).doc = outcome.doc

----------------------------------------------------------------------------
(* Properties of normalize_indentation                                     *)

\* the number of space characters a line starts with
LeadingSpaces(l) ==
    CHOOSE k \in 0..Len(l) : /\ \A i \in 1..k : l[i] = SP
                             /\ k = Len(l) \/ l[k + 1] # SP
IsBlank(l) == \A i \in 1..Len(l) : IsSpace(l[i])

\* C14: a line that is not blank, with n leading spaces, comes back with
\* its leading spaces replaced by the multiple of 4 nearest to n, a remainder
\* of 2 rounding up, that is 4 * floor((n + 2) / 4) spaces, and the text
\* after the leading spaces unchanged.
C14_NearestMultipleOfFour ==
    (indented # <<>> /\ ~IsBlank(line))
    => indented[1] = Spaces(4 * ((LeadingSpaces(line) + 2) \div 4))
                     \o Drop(line, LeadingSpaces(line))

\* six leading spaces before a text, rounded up to eight
C14_Witness ==
    /\ indented # <<>>
    /\ LeadingSpaces(line) = 6
    /\ ~IsBlank(line)
    /\ LeadingSpaces(indented[1]) = 8

\* C15: normalize_indentation is idempotent; a line whose number of leading
\* spaces is a multiple of 4, and an empty or whitespace-only line, comes
\* back unchanged.
C15_Idempotent ==
    /\ Len(indented) = 2 => indented[2] = indented[1]
    /\ (indented # <<>> /\ (LeadingSpaces(line) % 4 = 0 \/ IsBlank(line)))
       => indented[1] = line

\* a line the first normalization changed and the second did not
C15_Witness ==
    /\ Len(indented) = 2
    /\ indented[1] # line
    /\ indented[2] = indented[1]

----------------------------------------------------------------------------
(* Properties of normalize_hunk                                            *)

\* C16: round trip of hunk normalization: the hunk normalize_hunk returns
\* has the before text and the after text of the hunk it was given, also
\* for hunks with whitespace-only lines and for hunks whose before and after
\* texts are equal.
C16_NormalizeRoundTrip ==
    (normalized_hunk.called /\ normalized_hunk.ok)
    => hunk_to_before_after(normalized_hunk.hunk) = hunk_to_before_after(raw_hunk)

----------------------------------------------------------------------------
(* Properties of a whole diff                                              *)

\* the failures of the hunks applied in order from doc, numbered from n
RECURSIVE FailuresOf(_, _, _, _)
FailuresOf(doc, exists, hunks, n) ==
    IF hunks = <<>> THEN <<>>
    ELSE LET r == do_replace(exists, doc, Head(hunks))
         IN (IF r.kind = "doc" THEN <<>> ELSE <<[hunk |-> n, kind |-> r.kind]>>)
            \o FailuresOf(IF r.kind = "doc" THEN r.doc ELSE doc, exists \/ r.touched,
                          Tail(hunks), n + 1)

\* the document after the hunks, applied in order from doc, failed or not
RECURSIVE DocumentAfter(_, _, _)
DocumentAfter(doc, exists, hunks) ==
    IF hunks = <<>> THEN doc
    ELSE LET r == do_replace(exists, doc, Head(hunks))
         IN DocumentAfter(IF r.kind = "doc" THEN r.doc ELSE doc, exists \/ r.touched,
                          Tail(hunks))

----------------------------------------------------------------------------
(* Properties of VirtualAgenticSystem                                      *)

\* whether anything in the system refers to the node name
Refers(name) ==
    \/ name \in nodes
    \/ name \in node_functions
    \/ \E n \in 1..Len(edges) : name \in {edges[n][1], edges[n][2]}
    \/ name \in DOMAIN conditional_edges
    \/ \E s \in DOMAIN conditional_edges :
          conditional_edges[s].has /\ name \in Values(conditional_edges[s].map)
    \/ entry_point = name
    \/ finish_point = name

\* C18: after delete_node(name) has returned True nothing in the system
\* refers to name: no node, no node function, no end of a standard edge, no
\* source of a conditional edge, no target of a path map, not the entry
\* point and not the finish point.
C18_DeletedNodeGone ==
    (last.op = "delete_node" /\ last.result = "True") => ~Refers(last.name)

----------------------------------------------------------------------------
(* Properties of the match strategies                                      *)

\* the positions of the windows of Len(before) document lines whose lines
\* equal the before lines once surrounding whitespace is stripped
WhitespaceWindows(doc, before) ==
    LET lines == SplitLinesKeep(doc)
    IN {i \in 0..(Len(lines) - Len(before)) :
           \A n \in 1..Len(before) : Strip(lines[i + n]) = Strip(before[n])}

\* C19: the whitespace-normalized strategy of directly_apply_hunk enforces
\* uniqueness: it changes the document only if exactly one window matches
\* the before lines modulo whitespace, and with two or more such windows
\* the hunk fails as ambiguous.
C19_WhitespaceMatchUnique ==
    LET r == directly_apply_hunk(original, hunk)
        windows == WhitespaceWindows(original, hunk_to_before_after_lines(hunk)[1])
    IN (Called /\ before_text # <<>> /\ ~Contains(original, before_text))
       => /\ r.via = "whitespace" => Cardinality(windows) = 1
          /\ Cardinality(windows) >= 2 => r.kind = "SearchTextNotUnique"

\* the positions of the windows of the last-resort scan of do_replace whose
\* similarity to the before lines is at least 0.8
ScanWindows(doc, before) ==
    LET lines == SplitLinesKeep(doc)
    IN {i \in 0..(Len(lines) - Len(before)) :
           RatioGE(ratio(Strip(Join(SubSeq(lines, i + 1, i + Len(before)))),
                         Strip(Join(before))), 8, 10)}

\* the positions of the windows whose similarity to the search block is the
\* best of all windows
BestWindows(doc, search_block) ==
    LET lines == SplitLines(doc)
        n == Len(SplitLines(search_block))
        at(i) == ratio(JoinNL(SubSeq(lines, i + 1, i + n)), search_block)
        all == 0..(Len(lines) - n)
    IN {i \in all : \A j \in all : ~RatioGT(at(j), at(i))}

\* C20: fuzzy matching changes the document only if exactly one window
\* position attains the best similarity ratio; when several positions tie
\* for the best ratio, or several windows pass the threshold of the
\* last-resort scan of do_replace, the hunk fails instead of being applied
\* at the first of them.
C20_FuzzyMatchUnique ==
    Called =>
       /\ directly_apply_hunk(original, hunk).via = "fuzzy"
             => Cardinality(BestWindows(original, before_text)) = 1
       /\ outcome.via = "scan"
             => Cardinality(ScanWindows(original, hunk_to_before_after_lines(hunk)[1])) = 1

\* udiff.py:259-286: whether directly_apply_hunk gets as far as the fuzzy
\* strategy: the before text is not empty, it is not in the content, and the
\* whitespace-insensitive strategy has not returned
ReachesFuzzy(content0, h) ==
    LET content == normalize_line_endings(content0)
        ba == hunk_to_before_after(h)
        first_line == FirstLine(SplitLines(ba[1]))
    IN /\ ba[1] # <<>>
       /\ ~Contains(content, ba[1])
       /\ WhitespaceMatch(content, ba[1], first_line, Find(content, first_line, 0)) < 0

\* C21: directly_apply_hunk tries exact, whitespace-normalized, fuzzy in
\* that order: the whitespace and the fuzzy strategy give the result only if
\* the before text occurs nowhere in the document, and the fuzzy strategy is
\* consulted only if no window of the document matches the before lines
\* modulo whitespace.
C21_StrategiesInOrder ==
    LET r == directly_apply_hunk(original, hunk)
        windows == WhitespaceWindows(original, hunk_to_before_after_lines(hunk)[1])
    IN (Called /\ before_text # <<>>)
       => /\ r.via \in {"whitespace", "fuzzy"} => Occurrences(original, before_text) = {}
          /\ ReachesFuzzy(original, hunk) => windows = {}

----------------------------------------------------------------------------
(* Properties of the partial application                                   *)

IsChange(section) == section[1] \in {"+", "-"}

\* C22: extract_context_sections splits a hunk into alternating context and
\* change sections, delete and add lines being one class: of two sections
\* next to each other one is context and the other is change, so that the
\* delete and add lines of one edit are in one section.
C22_SectionsAlternate ==
    Called => LET sections == extract_context_sections(hunk)
              IN \A i \in 1..(Len(sections) - 1) :
                    IsChange(sections[i]) # IsChange(sections[i + 1])

\* udiff.py:325-328: the loop state of apply_partial_hunk when it comes to
\* section i
RECURSIVE StateBefore(_, _, _)
StateBefore(content, sections, i) ==
    IF i = 1
    THEN [content_result |-> content, all_applied |-> TRUE,
          raised |-> FALSE, late |-> FALSE, finds |-> 0, hits |-> 0,
          matched |-> <<>>, applied |-> <<>>]
    ELSE ApplySection(StateBefore(content, sections, i - 1), content, sections, i - 1)

\* whether section i with some p of its preceding and some f of its
\* following context lines is applied by directly_apply_hunk to doc
SomePairApplies(doc, sections, i) ==
    LET preceding_ctx == IF i > 1 /\ sections[i - 1][1] = " " THEN sections[i - 1][2] ELSE <<>>
        following_ctx == IF i < Len(sections) /\ sections[i + 1][1] = " "
                         THEN sections[i + 1][2] ELSE <<>>
    IN \E p \in 0..Len(preceding_ctx), f \in 0..Len(following_ctx) :
          Truthy(directly_apply_hunk(doc,
                    SubSeq(preceding_ctx, Len(preceding_ctx) - p + 1, Len(preceding_ctx))
                    \o sections[i][2] \o Take(following_ctx, f)))

\* C23: in apply_partial_hunk every change section, the first and every
\* later one, is tried with less and less of its preceding and following
\* context down to none, until one pair succeeds: a section is applied at
\* most once, and it is left unapplied only if no pair of context amounts
\* applies it to the document as the earlier sections left it.
C23_EverySectionShrinksContext ==
    LET content == normalize_line_endings(original)
        sections == extract_context_sections(hunk)
    IN (Called /\ outcome.applied # <<>> /\ ~outcome.raised)
       => \A i \in 1..Len(sections) :
             IsChange(sections[i]) =>
                LET n == Cardinality({j \in 1..i : IsChange(sections[j])})
                IN /\ outcome.applied[n] <= 1
                   /\ outcome.applied[n] = 0 =>
                         ~SomePairApplies(StateBefore(content, sections, i).content_result,
                                          sections, i)

\* the documents directly_apply_hunk gives for section i of the sections with
\* some of its context, on a document of docs
AppliedTo(docs, sections, i) ==
    LET preceding_ctx == IF i > 1 /\ sections[i - 1][1] = " " THEN sections[i - 1][2] ELSE <<>>
        following_ctx == IF i < Len(sections) /\ sections[i + 1][1] = " "
                         THEN sections[i + 1][2] ELSE <<>>
        results == {directly_apply_hunk(d,
                        SubSeq(preceding_ctx, Len(preceding_ctx) - p + 1, Len(preceding_ctx))
                        \o sections[i][2] \o Take(following_ctx, f)) :
                    d \in docs, p \in 0..Len(preceding_ctx), f \in 0..Len(following_ctx)}
    IN {r.doc : r \in {x \in results : Truthy(x)}}

\* the documents that come of applying, in hunk order, each change section
\* from the i-th on that hits says was applied, the first to a document of
\* docs and each later one to a document the one before gave
RECURSIVE DocsAfter(_, _, _, _)
DocsAfter(docs, sections, hits, i) ==
    IF i > Len(sections) THEN docs
    ELSE IF IsChange(sections[i])
            /\ hits[Cardinality({j \in 1..i : IsChange(sections[j])})] = 1
    THEN DocsAfter(AppliedTo(docs, sections, i), sections, hits, i + 1)
    ELSE DocsAfter(docs, sections, hits, i + 1)

\* C24: apply_partial_hunk applies the change sections in hunk order, each
\* to the document as the earlier sections of the hunk left it: the document
\* it returns is the given one with the applied sections applied one after
\* the other, each located in the result of the one before.
C24_SectionsSeeEarlierEdits ==
    (Called /\ outcome.via = "partial" /\ \A n \in 1..Len(outcome.applied) : outcome.applied[n] <= 1)
    => outcome.doc \in DocsAfter({normalize_line_endings(original)},
                                 extract_context_sections(hunk), outcome.applied, 1)

\* two sections applied, and no attempt of the later one applies it to the
\* document given: it is applied to the document the earlier one left
C24_Witness ==
    /\ Called
    /\ outcome.via = "partial"
    /\ \A n \in 1..Len(outcome.applied) : outcome.applied[n] = 1
    /\ \E i \in 2..Len(extract_context_sections(hunk)) :
          /\ IsChange(extract_context_sections(hunk)[i])
          /\ \E j \in 1..(i - 1) : IsChange(extract_context_sections(hunk)[j])
          /\ AppliedTo({normalize_line_endings(original)}, extract_context_sections(hunk), i) = {}
    /\ outcome.doc # original

----------------------------------------------------------------------------
(* Properties of hunk_to_before_after                                      *)

\* the text after the tag of the lines of h whose tag is in ops, in order
RECURSIVE PayloadText(_, _)
PayloadText(h, ops) ==
    IF h = <<>> THEN <<>>
    ELSE (IF Head(h) # <<>> /\ Head(h)[1] \in ops THEN Tail(Head(h)) ELSE <<>>)
         \o PayloadText(Tail(h), ops)

\* C25: hunk_to_before_after returns as before the payloads of the context
\* and delete lines of the hunk, as after the payloads of its context and
\* add lines, concatenated in hunk order, no payload altered, dropped or
\* reordered.
C25_BeforeAfterArePayloads ==
    Called => hunk_to_before_after(hunk)
                 = <<PayloadText(hunk, {" ", "-"}), PayloadText(hunk, {" ", "+"})>>

----------------------------------------------------------------------------
(* Properties of find_diffs: the edit lines                                *)

\* whether line n of the lines is one of a file header: a "--- " line with
\* a "+++ " line right after it, or that "+++ " line
InFileHeader(lines, n) ==
    \/ /\ StartsWith(lines[n], OldFile)
       /\ n < Len(lines)
       /\ StartsWith(lines[n + 1], NewFile)
    \/ /\ StartsWith(lines[n], NewFile)
       /\ n > 1
       /\ StartsWith(lines[n - 1], OldFile)

\* the edit lines of the lines from the n-th on, file headers left out
RECURSIVE EditLinesFrom(_, _)
EditLinesFrom(lines, n) ==
    IF n > Len(lines) THEN <<>>
    ELSE (IF IsEditLine(lines[n]) /\ ~InFileHeader(lines, n) THEN <<lines[n]>> ELSE <<>>)
         \o EditLinesFrom(lines, n + 1)

\* the edit lines of the hunks of the edits, in order
RECURSIVE EditLinesOf(_)
EditLinesOf(edits) ==
    IF edits = <<>> THEN <<>>
    ELSE SelectSeq(Head(edits).hunk, IsEditLine) \o EditLinesOf(Tail(edits))

\* C26: find_diffs loses no edit line: in the fenced and the bare unified
\* dialect the lines of the diff text that start with "+" or "-", file
\* headers apart, are the edit lines of the returned hunks, each once and in
\* the order of the text.
C26_NoEditLineLost ==
    (parsed /\ (AnyLine(FenceDiff) \/ AnyLine(HunkMarker)))
    => EditLinesOf(found) = EditLinesFrom(DiffContentLines, 1)

----------------------------------------------------------------------------
(* Properties of directly_apply_hunk: the replaced region                  *)

\* C27: a document directly_apply_hunk returns, by whichever strategy, is
\* the given document with one region replaced by the after text: the
\* region is a run of whole lines, as many as the before lines and with
\* their line terminators, and the lines before and after it are unchanged,
\* so the result has lines(D) - lines(before) + lines(after) lines.
C27_WholeLinesReplaced ==
    LET r == directly_apply_hunk(original, hunk)
        lines == SplitLinesKeep(normalize_line_endings(original))
        ba == hunk_to_before_after_lines(hunk)
    IN (Called /\ r.kind = "doc")
       => /\ \E i \in 0..(Len(lines) - Len(ba[1])) :
                r.doc = Join(Take(lines, i) \o ba[2] \o Drop(lines, i + Len(ba[1])))
          /\ Len(SplitLinesKeep(r.doc)) = Len(lines) - Len(ba[1]) + Len(ba[2])

----------------------------------------------------------------------------
(* Properties of VirtualAgenticSystem: the standard edges                  *)

\* C28: after any sequence of operations, calls that raise or return False
\* among them, every standard edge starts and ends at an existing node, and
\* the entry point and the finish point are each None or an existing node.
C28_EdgesAndPointsExist ==
    /\ \A n \in 1..Len(edges) : edges[n][1] \in nodes /\ edges[n][2] \in nodes
    /\ entry_point \in nodes \cup {None}
    /\ finish_point \in nodes \cup {None}

\* a node has just been deleted, an edge at the other node is left, and the
\* other node is entry point and finish point
C28_Witness ==
    /\ last.op = "delete_node"
    /\ last.result = "True"
    /\ last.name \notin nodes
    /\ edges # <<>>
    /\ entry_point # None
    /\ finish_point # None

\* C29: each node is the source of at most one standard edge: a create_edge
\* on a source that has an outgoing standard edge raises ValueError and
\* leaves the list of edges as it was.
C29_OneOutgoingEdge ==
    [][/\ \A m, n \in 1..Len(edges') : edges'[m][1] = edges'[n][1] => m = n
       /\ (/\ last'.op = "create_edge"
           /\ \E n \in 1..Len(edges) : edges[n][1] = last'.name)
          => (last'.result = "ValueError" /\ edges' = edges)]_vars

\* both nodes exist and create_edge has raised: its source has an edge
C29_Witness ==
    /\ nodes = Names
    /\ last.op = "create_edge"
    /\ last.result = "ValueError"
    /\ \E n \in 1..Len(edges) : edges[n][1] = last.name
    /\ Len(edges) = 2

----------------------------------------------------------------------------
(* Properties of RelativeIndenter                                          *)

\* C30: round trip of RelativeIndenter: for every text that does not hold
\* the outdent marker, texts with blank or whitespace-only lines among
\* them, make_absolute(make_relative(text)) is the text.
C30_IndenterRoundTrip ==
    /\ relative_text.called => relative_text.raised = "none"
    /\ absolute_text.called =>
          absolute_text.raised = "none" /\ absolute_text.text = indenter_text

====
